---- MODULE Spec2Model ----
(***************************************************************************)
(* Reservation domain service of booking_table_GUI (src/backend.py) on top *)
(* of the generic persistence engine (src/postgres_driver.py).             *)
(*                                                                         *)
(* The store is the content of the relational tables "restaurant_table"    *)
(* and "booking".  Identifiers (uuid4 values) are opaque tokens; time is   *)
(* counted in slots, a duration is a number of slots.  The booking fields  *)
(* that no modelled decision reads (user_id, guest_count,                  *)
(* special_requests) are left out of the rows; the columns created_at and  *)
(* updated_at of "booking" are kept apart from the other columns, in       *)
(* stamps.                                                                 *)
(***************************************************************************)
EXTENDS Integers, Sequences, FiniteSets, TLC

VARIABLES
    users,      \* rows of "user": user id -> User
    tables,     \* rows of "restaurant_table": table id -> Table
    bookings,   \* rows of "booking": booking id -> Booking
    last,       \* what the last call handed back to its caller
    inflight,   \* the create_booking calls running concurrently, per caller
    stamps,     \* columns created_at, updated_at of "booking", per booking id
    now,        \* what datetime.now() reads
    pool        \* the connections of the SimpleConnectionPool

vars == <<users, tables, bookings, last, inflight, stamps, now, pool>>

\* ------------------------------------------------------------------ bounds
\* time is counted in slots of 60 minutes; the bookings of the model lie in
\* [0, Horizon)
Horizon == 2
\* duration_minutes defaults to 120: two slots
DefaultDuration == 2

TableIds == {"t1", "t2"}
Procs == {"p1", "p2"}
BookingIds == {1, 2, 3}
\* Spec and SpecChecked hold at most two bookings at a time, under these ids
SpecIds == {1, 2}
UserIds == {"u1", "u2"}
Names == {"ann", "bob", "eve"}
Phones == {"+1", "+2"}
Numbers == {1, 2}
Times == 0..(Horizon - 1)
\* 60 and 120 minutes
Durations == 1..DefaultDuration

\* datetime.now() reads 0..MaxClock
MaxClock == 2
Clock == 0..MaxClock
\* the connections of the pool (maxconn of them)
Conns == {"c1"}

\* an absent optional result (Python None) where a row is expected
None == [absent |-> TRUE]
\* no booking id given (exclude_booking_id = None)
NoBooking == 0
\* no table found
NoTable == "None"
\* no user found
NoUser == "None"
\* update_fields = None, not a list of field names
NoFieldList == {"None"}

\* the pool as SimpleConnectionPool builds it: every connection in the pool,
\* no transaction begun on it.  holder is the caller that has the connection
\* checked out, or "pool"; txn is the transaction status of the connection;
\* returned is the status it had when it was last handed to putconn.
FreshPool == [c \in Conns |->
                 [holder |-> "pool", txn |-> "idle", returned |-> "idle"]]

\* ---------------------------------------------------------- entity model
Status == {"pending", "confirmed", "cancelled"}

\* email and created_at are left out of the user rows: no decision reads them
User == [name : Names, phone : Phones]

Table == [number : Numbers, is_available : BOOLEAN]

Booking == {r \in [table_id : TableIds, booking_date : Times,
                   duration_minutes : Durations, status : Status] :
               r.booking_date + r.duration_minutes <= Horizon}

UserFields == {"name", "phone"}
TableFields == {"number", "is_available"}
BookingFields == {"table_id", "booking_date", "duration_minutes", "status"}
\* the columns of "booking" in the model, stamps included
BookingColumns == BookingFields \cup {"id", "created_at", "updated_at"}
\* created_at and updated_at of a booking row
Stamps == [created_at : Clock, updated_at : Clock]

\* ----------------------------------------------------- persistence engine
\* read_by_id: the row with that id, or None
read_by_id(rows, id) == IF id \in DOMAIN rows THEN rows[id] ELSE None

\* INSERT ... RETURNING *: one row added under the entity's fresh id
create(rows, id, entity) == [i \in DOMAIN rows \cup {id} |->
                               IF i = id THEN entity ELSE rows[i]]

\* variant, not the code: the UPDATE that never writes the status column
update_keep_status(rows, id, entity, update_fields) ==
    [i \in DOMAIN rows |->
       IF i = id
       THEN [f \in DOMAIN rows[i] |->
               IF f \in update_fields /\ f # "status"
               THEN entity[f] ELSE rows[i][f]]
       ELSE rows[i]]

\* UPDATE ... SET f = entity.f for f in update_fields WHERE id = ...
update(rows, id, entity, update_fields) ==
    [i \in DOMAIN rows |->
       IF i = id
       THEN [f \in DOMAIN rows[i] |->
               IF f \in update_fields THEN entity[f] ELSE rows[i][f]]
       ELSE rows[i]]

\* variant, not the code: the default field list that leaves out the id only
default_update_fields_all(entity_fields) == entity_fields \ {"id"}

\* update_fields = None: every field of the entity but id and created_at
default_update_fields(entity_fields) == entity_fields \ {"id", "created_at"}

\* the columns the UPDATE sets
driver_update_fields(update_fields, entity_fields) ==
    IF update_fields = NoFieldList
    THEN default_update_fields(entity_fields)
    ELSE update_fields

\* UPDATE matched no row: fetchone() gives None, dict(None) raises, and the
\* driver raises Exception
update_raises(rows, id) == id \notin DOMAIN rows

\* variant, not the code: the UPDATE that hands back the record it was given
update_returns_passed(rows, id, entity, update_fields) == entity

\* the record update hands back: every field of the entity is set from the
\* row that RETURNING * gave
update_returns(rows, id, entity, update_fields) ==
    LET result == update(rows, id, entity, update_fields)[id]
    IN  [f \in DOMAIN entity |-> result[f]]

\* DELETE FROM ... WHERE id = ...
\* variant, not the code: the DELETE that matches no row
delete_nothing(rows, id) == rows

delete(rows, id) == [i \in DOMAIN rows \ {id} |-> rows[i]]

\* variant, not the code: the delete that answers True whenever it ran
delete_returns_ran(rows, id) == TRUE

\* cursor.rowcount > 0: the DELETE removed a row
delete_returns(rows, id) == id \in DOMAIN rows

\* uuid4 of a new Booking: a token no stored row carries
NewBookingId == CHOOSE i \in BookingIds \ DOMAIN bookings :
                    \A j \in BookingIds \ DOMAIN bookings : i <= j

NewTableId == CHOOSE i \in TableIds \ DOMAIN tables : TRUE

NewUserId == CHOOSE i \in UserIds \ DOMAIN users : TRUE

\* read(User, filters={"name": name}, limit=1): a user with that name
get_user_by_name(name) ==
    IF \E u \in DOMAIN users : users[u].name = name
    THEN CHOOSE u \in DOMAIN users : users[u].name = name
    ELSE NoUser

\* ------------------------------------------------------- domain service
get_table_by_id(table_id) == read_by_id(tables, table_id)

get_booking_by_id(booking_id) == read_by_id(bookings, booking_id)

get_table_by_number(number) ==
    IF \E t \in DOMAIN tables : tables[t].number = number
    THEN CHOOSE t \in DOMAIN tables : tables[t].number = number
    ELSE NoTable

\* variant, not the code: the rows ORDER BY booking_date DESC
RECURSIVE OrderByDateDesc(_)
OrderByDateDesc(ids) ==
    IF ids = {} THEN <<>>
    ELSE LET first == CHOOSE b \in ids : \A c \in ids :
                         \/ bookings[b].booking_date > bookings[c].booking_date
                         \/ /\ bookings[b].booking_date = bookings[c].booking_date
                            /\ b <= c
         IN  <<first>> \o OrderByDateDesc(ids \ {first})

\* rows of one table ORDER BY booking_date, as a sequence of booking ids
RECURSIVE OrderByDate(_)
OrderByDate(ids) ==
    IF ids = {} THEN <<>>
    ELSE LET first == CHOOSE b \in ids : \A c \in ids :
                         \/ bookings[b].booking_date < bookings[c].booking_date
                         \/ /\ bookings[b].booking_date = bookings[c].booking_date
                            /\ b <= c
         IN  <<first>> \o OrderByDate(ids \ {first})

get_bookings_by_table(table_id) ==
    OrderByDate({b \in DOMAIN bookings : bookings[b].table_id = table_id})

\* variant, not the code: the loop with closed intervals: a shared end point
\* counts as a conflict
RECURSIVE FirstConflictClosed(_, _, _)
FirstConflictClosed(active_bookings, booking_date, booking_end) ==
    IF active_bookings = <<>> THEN NoBooking
    ELSE LET existing_booking == bookings[Head(active_bookings)]
             existing_start == existing_booking.booking_date
             existing_end == existing_booking.booking_date
                             + existing_booking.duration_minutes
         IN  IF booking_date <= existing_end /\ existing_start <= booking_end
             THEN Head(active_bookings)
             ELSE FirstConflictClosed(Tail(active_bookings), booking_date,
                                      booking_end)

\* the loop over active_bookings: the first booking whose interval meets
\* [booking_date, booking_end), or None
RECURSIVE FirstConflict(_, _, _)
FirstConflict(active_bookings, booking_date, booking_end) ==
    IF active_bookings = <<>> THEN NoBooking
    ELSE LET existing_booking == bookings[Head(active_bookings)]
             existing_start == existing_booking.booking_date
             existing_end == existing_booking.booking_date
                             + existing_booking.duration_minutes
         IN  IF booking_date < existing_end /\ existing_start < booking_end
             THEN Head(active_bookings)
             ELSE FirstConflict(Tail(active_bookings), booking_date, booking_end)

\* variant, not the code: the check without the status filter: every booking
\* of the table counts
check_table_availability_all(table_id, booking_date, duration_minutes, exclude_booking_id) ==
    LET table == get_table_by_id(table_id) IN
    IF table = None THEN [is_available |-> FALSE, conflict |-> NoBooking]
    ELSE IF ~table.is_available THEN [is_available |-> FALSE, conflict |-> NoBooking]
    ELSE
      LET booking_end == booking_date + duration_minutes
          all_bookings == get_bookings_by_table(table_id)
          active_bookings ==
              SelectSeq(all_bookings, LAMBDA b : b # exclude_booking_id)
          hit == FirstConflict(active_bookings, booking_date, booking_end)
      IN  [is_available |-> hit = NoBooking, conflict |-> hit]

\* variant, not the code: the check that never reads the availability flag
check_table_availability_noflag(table_id, booking_date, duration_minutes, exclude_booking_id) ==
    LET table == get_table_by_id(table_id) IN
    IF table = None THEN [is_available |-> FALSE, conflict |-> NoBooking]
    ELSE
      LET booking_end == booking_date + duration_minutes
          all_bookings == get_bookings_by_table(table_id)
          active_bookings ==
              SelectSeq(all_bookings,
                        LAMBDA b : /\ bookings[b].status \in {"pending", "confirmed"}
                                   /\ b # exclude_booking_id)
          hit == FirstConflict(active_bookings, booking_date, booking_end)
      IN  [is_available |-> hit = NoBooking, conflict |-> hit]

\* [is_available, conflict]: conflict names the colliding booking of the reason
check_table_availability(table_id, booking_date, duration_minutes, exclude_booking_id) ==
    LET table == get_table_by_id(table_id) IN
    IF table = None THEN [is_available |-> FALSE, conflict |-> NoBooking]
    ELSE IF ~table.is_available THEN [is_available |-> FALSE, conflict |-> NoBooking]
    ELSE
      LET booking_end == booking_date + duration_minutes
          all_bookings == get_bookings_by_table(table_id)
          active_bookings ==
              SelectSeq(all_bookings,
                        LAMBDA b : /\ bookings[b].status \in {"pending", "confirmed"}
                                   /\ b # exclude_booking_id)
          hit == FirstConflict(active_bookings, booking_date, booking_end)
      IN  [is_available |-> hit = NoBooking, conflict |-> hit]

\* ------------------------------------------------------------- operations
\* What a call hands back: the operation, the booking id it was given or
\* created, the stored status of that booking before the call ("None" when
\* there was no such row), the status the call was to store ("None" when it
\* was to store none), and the outcome: "ok", "None", "True", "False" or the
\* exception raised.
Result(op, id, was, status, res) ==
    [op |-> op, id |-> id, was |-> was, status |-> status, res |-> res]

\* no call has a result outstanding
Idle == Result("idle", NoBooking, "None", "None", "ok")

StoredStatus(booking_id) ==
    IF booking_id \in DOMAIN bookings THEN bookings[booking_id].status ELSE "None"

\* a caller that has not called yet
NotCalled == [pc |-> "idle", booking |-> None, table |-> None, seen |-> {},
              is_available |-> FALSE, res |-> "None", id |-> NoBooking]

Init ==
    /\ users = << >>
    /\ tables = << >>
    /\ bookings = << >>
    /\ last = Idle
    /\ inflight = [p \in Procs |-> NotCalled]
    /\ stamps = << >>
    /\ now = 0
    /\ pool = FreshPool

\* ---- users
\* variant, not the code: create_user without the name lookup
create_user_res_any(name) == "ok"

create_user_res(name) ==
    IF get_user_by_name(name) # NoUser THEN "ValueError" ELSE "ok"

\* the rows of "user" after create_user, given its outcome res
create_user_rows(res, name, phone) ==
    IF res = "ok"
    THEN create(users, NewUserId, [name |-> name, phone |-> phone])
    ELSE users

create_user(name, phone) ==
    /\ last = Idle
    /\ UserIds \ DOMAIN users # {}
    /\ users' = create_user_rows(create_user_res(name), name, phone)
    /\ last' = Result("create_user", NoBooking, "None", "None",
                      create_user_res(name))
    /\ UNCHANGED <<tables, bookings, inflight, stamps, now, pool>>

\* variant, not the code: update_user taking any holder of the name, the
\* user itself included, for a collision
update_user_res_noself(user_id, user, update_fields) ==
    IF /\ update_fields = NoFieldList \/ "name" \in update_fields
       /\ get_user_by_name(user.name) # NoUser
    THEN "ValueError"
    ELSE IF update_raises(users, user_id) THEN "Exception"
    ELSE "ok"

update_user_res(user_id, user, update_fields) ==
    LET existing_user == get_user_by_name(user.name) IN
    IF /\ update_fields = NoFieldList \/ "name" \in update_fields
       /\ existing_user # NoUser
       /\ existing_user # user_id
    THEN "ValueError"
    ELSE IF update_raises(users, user_id) THEN "Exception"
    ELSE "ok"

\* the rows of "user" after update_user, given its outcome res
update_user_rows(res, user_id, user, update_fields) ==
    IF res = "ok"
    THEN update(users, user_id, user,
                IF update_fields = NoFieldList
                THEN UserFields ELSE update_fields)
    ELSE users

update_user(user_id, user, update_fields) ==
    /\ last = Idle
    /\ users' = update_user_rows(update_user_res(user_id, user, update_fields),
                                 user_id, user, update_fields)
    /\ last' = Result("update_user", NoBooking, "None", "None",
                      update_user_res(user_id, user, update_fields))
    /\ UNCHANGED <<tables, bookings, inflight, stamps, now, pool>>

delete_user(user_id) ==
    /\ last = Idle
    /\ users' = delete(users, user_id)
    /\ last' = Result("delete_user", NoBooking, "None", "None",
                      IF delete_returns(users, user_id) THEN "True" ELSE "False")
    /\ UNCHANGED <<tables, bookings, inflight, stamps, now, pool>>

\* ---- tables
create_table_res(number) ==
    IF get_table_by_number(number) # NoTable THEN "ValueError" ELSE "ok"

\* the rows of "restaurant_table" after create_table, given its outcome res
create_table_rows(res, number, is_available) ==
    IF res = "ok"
    THEN create(tables, NewTableId,
                [number |-> number, is_available |-> is_available])
    ELSE tables

create_table(number, is_available) ==
    /\ last = Idle
    /\ TableIds \ DOMAIN tables # {}
    /\ tables' = create_table_rows(create_table_res(number), number,
                                   is_available)
    /\ last' = Result("create_table", NoBooking, "None", "None",
                      create_table_res(number))
    /\ UNCHANGED <<users, bookings, inflight, stamps, now, pool>>

\* variant, not the code: update_table without the number lookup
update_table_res_nocheck(table_id, table, update_fields) ==
    IF update_raises(tables, table_id) THEN "Exception" ELSE "ok"

update_table_res(table_id, table, update_fields) ==
    LET existing_table == get_table_by_number(table.number) IN
    IF /\ update_fields = NoFieldList \/ "number" \in update_fields
       /\ existing_table # NoTable
       /\ existing_table # table_id
    THEN "ValueError"
    ELSE IF update_raises(tables, table_id) THEN "Exception"
    ELSE "ok"

\* the rows of "restaurant_table" after update_table, given its outcome res
update_table_rows(res, table_id, table, update_fields) ==
    IF res = "ok"
    THEN update(tables, table_id, table,
                IF update_fields = NoFieldList
                THEN TableFields ELSE update_fields)
    ELSE tables

update_table(table_id, table, update_fields) ==
    /\ last = Idle
    /\ tables' = update_table_rows(
                     update_table_res(table_id, table, update_fields),
                     table_id, table, update_fields)
    /\ last' = Result("update_table", NoBooking, "None", "None",
                      update_table_res(table_id, table, update_fields))
    /\ UNCHANGED <<users, bookings, inflight, stamps, now, pool>>

delete_table(table_id) ==
    /\ last = Idle
    /\ tables' = delete(tables, table_id)
    /\ last' = Result("delete_table", NoBooking, "None", "None",
                      IF delete_returns(tables, table_id) THEN "True" ELSE "False")
    /\ UNCHANGED <<users, bookings, inflight, stamps, now, pool>>

\* ---- bookings
call_check_table_availability(table_id, booking_date, duration_minutes, exclude_booking_id) ==
    /\ last = Idle
    /\ last' = Result("check_table_availability", exclude_booking_id,
                      StoredStatus(exclude_booking_id), "None",
                      IF check_table_availability(table_id, booking_date,
                             duration_minutes, exclude_booking_id).is_available
                      THEN "True" ELSE "False")
    /\ UNCHANGED <<users, tables, bookings, inflight, stamps, now, pool>>

\* variant, not the code: create_booking running the check whatever the flag
create_booking_res_checked(table_id, booking_date, duration_minutes, check_availability) ==
    IF ~check_table_availability(table_id, booking_date, duration_minutes,
                                 NoBooking).is_available
    THEN "ValueError"
    ELSE "ok"

create_booking_res(table_id, booking_date, duration_minutes, check_availability) ==
    IF /\ check_availability
       /\ ~check_table_availability(table_id, booking_date, duration_minutes,
                                    NoBooking).is_available
    THEN "ValueError"
    ELSE "ok"

\* created_at and updated_at of a Booking built now (default_factory
\* datetime.now)
NewStamps == [created_at |-> now, updated_at |-> now]

\* the created_at, updated_at columns of "booking" after create_booking
create_booking_stamps(res) ==
    IF res = "ok" THEN create(stamps, NewBookingId, NewStamps) ELSE stamps

\* variant, not the code: create_booking inserting whatever the check said
create_booking_rows_always(res, table_id, booking_date, duration_minutes, status) ==
    create(bookings, NewBookingId,
           [table_id |-> table_id,
            booking_date |-> booking_date,
            duration_minutes |-> duration_minutes,
            status |-> status])

\* the rows of "booking" after create_booking, given its outcome res
create_booking_rows(res, table_id, booking_date, duration_minutes, status) ==
    IF res = "ok"
    THEN create(bookings, NewBookingId,
                [table_id |-> table_id,
                 booking_date |-> booking_date,
                 duration_minutes |-> duration_minutes,
                 status |-> status])
    ELSE bookings

create_booking(table_id, booking_date, duration_minutes, status, check_availability) ==
    LET res == create_booking_res(table_id, booking_date, duration_minutes,
                                  check_availability)
    IN  /\ last = Idle
        /\ BookingIds \ DOMAIN bookings # {}
        /\ bookings' = create_booking_rows(res, table_id, booking_date,
                                           duration_minutes, status)
        /\ stamps' = create_booking_stamps(res)
        /\ last' = Result("create_booking",
                          IF res = "ok" THEN NewBookingId ELSE NoBooking,
                          "None", status, res)
        /\ UNCHANGED <<users, tables, inflight, now, pool>>

\* variant, not the code: update_booking running the check on every call
update_booking_res_always(booking_id, booking, check_availability) ==
    IF /\ check_availability
       /\ get_booking_by_id(booking_id) # None
       /\ ~check_table_availability(booking.table_id, booking.booking_date,
                                    booking.duration_minutes,
                                    booking_id).is_available
    THEN "ValueError"
    ELSE IF update_raises(bookings, booking_id) THEN "Exception"
    ELSE "ok"

\* variant, not the code: update_booking checking without exclude_booking_id
update_booking_res_noexclude(booking_id, booking, check_availability) ==
    LET existing_booking == get_booking_by_id(booking_id)
        time_changed ==
            \/ existing_booking.booking_date # booking.booking_date
            \/ existing_booking.duration_minutes # booking.duration_minutes
        table_changed == existing_booking.table_id # booking.table_id
    IN  IF /\ check_availability
           /\ existing_booking # None
           /\ time_changed \/ table_changed
           /\ ~check_table_availability(booking.table_id, booking.booking_date,
                                        booking.duration_minutes,
                                        NoBooking).is_available
        THEN "ValueError"
        ELSE IF booking_id \notin DOMAIN bookings THEN "Exception"
        ELSE "ok"

\* update_booking of the record `booking` whose id is booking_id: the
\* availability check, then db.update
\* variant, not the code: update_booking that never runs the check
update_booking_res_unchecked(booking_id, booking, check_availability) ==
    IF update_raises(bookings, booking_id) THEN "Exception" ELSE "ok"

update_booking_res(booking_id, booking, check_availability) ==
    LET existing_booking == get_booking_by_id(booking_id)
        time_changed ==
            \/ existing_booking.booking_date # booking.booking_date
            \/ existing_booking.duration_minutes # booking.duration_minutes
        table_changed == existing_booking.table_id # booking.table_id
    IN  IF /\ check_availability
           /\ existing_booking # None
           /\ time_changed \/ table_changed
           /\ ~check_table_availability(booking.table_id, booking.booking_date,
                                        booking.duration_minutes,
                                        booking_id).is_available
        THEN "ValueError"
        ELSE IF update_raises(bookings, booking_id) THEN "Exception"
        ELSE "ok"

\* the rows of "booking" after update_booking, given its outcome res
update_booking_rows(res, booking_id, booking, update_fields) ==
    IF res = "ok"
    THEN update(bookings, booking_id, booking,
                IF update_fields = NoFieldList
                THEN BookingFields ELSE update_fields)
    ELSE bookings

\* variant, not the code: update_booking handing the caller's field list on
\* as it is
update_booking_fields_asis(update_fields) == update_fields

\* the field list update_booking hands to the driver: None stays None, a
\* list gets updated_at appended
update_booking_fields(update_fields) ==
    IF update_fields = NoFieldList
    THEN NoFieldList
    ELSE update_fields \cup {"updated_at"}

\* the created_at, updated_at columns of "booking" after update_booking of a
\* record carrying created_at: updated_at is set to datetime.now() first
update_booking_stamps(res, booking_id, created_at, update_fields) ==
    IF res = "ok"
    THEN update(stamps, booking_id,
                [created_at |-> created_at, updated_at |-> now],
                driver_update_fields(update_booking_fields(update_fields),
                                     BookingColumns))
    ELSE stamps

\* the created_at a caller's record carries: that of the stored row (a record
\* read before) or that of a record built now
CallerCreatedAt(booking_id) ==
    {now} \cup {stamps[b].created_at : b \in DOMAIN stamps \cap {booking_id}}

update_booking(booking_id, booking, update_fields, check_availability) ==
    LET res == update_booking_res(booking_id, booking, check_availability) IN
    /\ last = Idle
    /\ bookings' = update_booking_rows(res, booking_id, booking, update_fields)
    /\ \E created_at \in CallerCreatedAt(booking_id) :
          stamps' = update_booking_stamps(res, booking_id, created_at,
                                          update_fields)
    /\ last' = Result("update_booking", booking_id, StoredStatus(booking_id),
                      IF update_fields = NoFieldList \/ "status" \in update_fields
                      THEN booking.status ELSE "None",
                      res)
    /\ UNCHANGED <<users, tables, inflight, now, pool>>

delete_booking(booking_id) ==
    /\ last = Idle
    /\ bookings' = delete(bookings, booking_id)
    /\ stamps' = delete(stamps, booking_id)
    /\ last' = Result("delete_booking", booking_id, StoredStatus(booking_id),
                      "None",
                      IF delete_returns(bookings, booking_id) THEN "True" ELSE "False")
    /\ UNCHANGED <<users, tables, inflight, now, pool>>

\* variant, not the code: confirm_booking and cancel_booking passing the row
\* on as they read it
WithStatusKept(booking_id, status) == get_booking_by_id(booking_id)

\* the record confirm_booking / cancel_booking passes on to update_booking
WithStatus(booking_id, status) ==
    [get_booking_by_id(booking_id) EXCEPT !.status = status]

\* variant, not the code: confirm_booking raising for an id it does not find
confirm_booking_res_raising(booking_id) ==
    IF get_booking_by_id(booking_id) # None
    THEN update_booking_res(booking_id, WithStatus(booking_id, "confirmed"), TRUE)
    ELSE "Exception"

confirm_booking_res(booking_id) ==
    IF get_booking_by_id(booking_id) # None
    THEN update_booking_res(booking_id, WithStatus(booking_id, "confirmed"), TRUE)
    ELSE "None"

\* the rows of "booking" after confirm_booking
confirm_booking_rows(booking_id) ==
    IF get_booking_by_id(booking_id) # None
    THEN update_booking_rows(confirm_booking_res(booking_id), booking_id,
                             WithStatus(booking_id, "confirmed"), {"status"})
    ELSE bookings

\* variant, not the code: confirm_booking writing both time columns anew
confirm_booking_stamps_fresh(booking_id) ==
    IF get_booking_by_id(booking_id) # None
    THEN update(stamps, booking_id, NewStamps, {"created_at", "updated_at"})
    ELSE stamps

\* the created_at, updated_at columns of "booking" after confirm_booking
confirm_booking_stamps(booking_id) ==
    IF get_booking_by_id(booking_id) # None
    THEN update_booking_stamps(confirm_booking_res(booking_id), booking_id,
                               stamps[booking_id].created_at, {"status"})
    ELSE stamps

confirm_booking(booking_id) ==
    LET res == confirm_booking_res(booking_id) IN
    /\ last = Idle
    /\ bookings' = confirm_booking_rows(booking_id)
    /\ stamps' = confirm_booking_stamps(booking_id)
    /\ last' = Result("confirm_booking", booking_id, StoredStatus(booking_id),
                      "confirmed", res)
    /\ UNCHANGED <<users, tables, inflight, now, pool>>

\* variant, not the code: cancel_booking refusing a booking that is already
\* cancelled
cancel_booking_res_strict(booking_id) ==
    IF get_booking_by_id(booking_id) = None THEN "None"
    ELSE IF get_booking_by_id(booking_id).status = "cancelled" THEN "ValueError"
    ELSE update_booking_res(booking_id, WithStatus(booking_id, "cancelled"), TRUE)

cancel_booking_res(booking_id) ==
    IF get_booking_by_id(booking_id) # None
    THEN update_booking_res(booking_id, WithStatus(booking_id, "cancelled"), TRUE)
    ELSE "None"

\* variant, not the code: cancel_booking writing nothing
cancel_booking_rows_nothing(booking_id) == bookings

\* the rows of "booking" after cancel_booking
cancel_booking_rows(booking_id) ==
    IF get_booking_by_id(booking_id) # None
    THEN update_booking_rows(cancel_booking_res(booking_id), booking_id,
                             WithStatus(booking_id, "cancelled"), {"status"})
    ELSE bookings

\* the created_at, updated_at columns of "booking" after cancel_booking
cancel_booking_stamps(booking_id) ==
    IF get_booking_by_id(booking_id) # None
    THEN update_booking_stamps(cancel_booking_res(booking_id), booking_id,
                               stamps[booking_id].created_at, {"status"})
    ELSE stamps

cancel_booking(booking_id) ==
    LET res == cancel_booking_res(booking_id) IN
    /\ last = Idle
    /\ bookings' = cancel_booking_rows(booking_id)
    /\ stamps' = cancel_booking_stamps(booking_id)
    /\ last' = Result("cancel_booking", booking_id, StoredStatus(booking_id),
                      "cancelled", res)
    /\ UNCHANGED <<users, tables, inflight, now, pool>>

\* the caller takes the result; its next call starts after that
Return ==
    /\ last # Idle
    /\ last' = Idle
    /\ UNCHANGED <<users, tables, bookings, inflight, stamps, now, pool>>

\* the field lists callers pass: None (the GUI) and ["status"] (confirm,
\* cancel, the tests)
BookingFieldLists == {NoFieldList, {"status"}}
TableFieldLists == {NoFieldList, {"is_available"}}

Next ==
    \/ \E n \in Numbers, a \in BOOLEAN : create_table(n, a)
    \/ \E t \in TableIds, r \in Table, f \in TableFieldLists :
          update_table(t, r, f)
    \/ \E t \in TableIds : delete_table(t)
    \/ \E t \in TableIds, s \in Times, d \in Durations,
          x \in SpecIds \cup {NoBooking} :
          call_check_table_availability(t, s, d, x)
    \/ \E r \in Booking, c \in BOOLEAN :
          /\ SpecIds \ DOMAIN bookings # {}
          /\ create_booking(r.table_id, r.booking_date, r.duration_minutes,
                            r.status, c)
    \/ \E b \in SpecIds, r \in Booking, f \in BookingFieldLists :
          update_booking(b, r, f, TRUE)
    \/ \E b \in SpecIds : delete_booking(b)
    \/ \E b \in SpecIds : confirm_booking(b)
    \/ \E b \in SpecIds : cancel_booking(b)
    \/ Return

\* update_booking is called with its default check_availability = True, as
\* every caller of it does
Spec == Init /\ [][Next]_vars

\* the same calls, every one with check_availability = True
NextChecked ==
    \/ \E n \in Numbers, a \in BOOLEAN : create_table(n, a)
    \/ \E t \in TableIds, r \in Table, f \in TableFieldLists :
          update_table(t, r, f)
    \/ \E t \in TableIds : delete_table(t)
    \/ \E r \in Booking :
          /\ SpecIds \ DOMAIN bookings # {}
          /\ create_booking(r.table_id, r.booking_date, r.duration_minutes,
                            r.status, TRUE)
    \/ \E b \in SpecIds, r \in Booking, f \in BookingFieldLists :
          update_booking(b, r, f, TRUE)
    \/ \E b \in SpecIds : delete_booking(b)
    \/ \E b \in SpecIds : confirm_booking(b)
    \/ \E b \in SpecIds : cancel_booking(b)
    \/ Return

SpecChecked == Init /\ [][NextChecked]_vars

\* the user operations alone
UserFieldLists == {NoFieldList, {"name"}, {"phone"}}

NextUsers ==
    \/ \E n \in Names, ph \in Phones : create_user(n, ph)
    \/ \E u \in UserIds, r \in User, f \in UserFieldLists :
          update_user(u, r, f)
    \/ \E u \in UserIds : delete_user(u)
    \/ Return

SpecUsers == Init /\ [][NextUsers]_vars

\* ------------------------------------------- concurrent create_booking
\* create_booking runs its availability check and its insert as two
\* statements with no lock or transaction around them; calls of different
\* callers interleave between the two.

\* the first statement: check_table_availability reads the table row and the
\* bookings of the table
begin_create_booking(p, booking) ==
    /\ last = Idle
    /\ inflight[p].pc = "idle"
    /\ Cardinality(SpecIds \ DOMAIN bookings)
         > Cardinality({q \in Procs : inflight[q].pc = "checked"})
    /\ inflight' = [inflight EXCEPT ![p] =
          [pc |-> "checked",
           booking |-> booking,
           table |-> get_table_by_id(booking.table_id),
           seen |-> {b \in DOMAIN bookings :
                        bookings[b].table_id = booking.table_id},
           is_available |->
               check_table_availability(booking.table_id, booking.booking_date,
                   booking.duration_minutes, NoBooking).is_available,
           res |-> "None",
           id |-> NoBooking]]
    /\ UNCHANGED <<users, tables, bookings, last, stamps, now, pool>>

\* variant, not the code: create_booking with the check repeated under the
\* insert
end_create_booking_locked(p) ==
    /\ last = Idle
    /\ inflight[p].pc = "checked"
    /\ IF /\ inflight[p].is_available
          /\ check_table_availability(inflight[p].booking.table_id,
                 inflight[p].booking.booking_date,
                 inflight[p].booking.duration_minutes, NoBooking).is_available
       THEN /\ bookings' = create(bookings, NewBookingId, inflight[p].booking)
            /\ stamps' = create(stamps, NewBookingId, NewStamps)
            /\ inflight' = [inflight EXCEPT ![p].pc = "done", ![p].res = "ok",
                                            ![p].id = NewBookingId]
       ELSE /\ bookings' = bookings
            /\ stamps' = stamps
            /\ inflight' = [inflight EXCEPT ![p].pc = "done",
                                            ![p].res = "ValueError"]
    /\ UNCHANGED <<users, tables, last, now, pool>>

\* the second statement: raise ValueError, or insert the row
end_create_booking(p) ==
    /\ last = Idle
    /\ inflight[p].pc = "checked"
    /\ IF inflight[p].is_available
       THEN /\ bookings' = create(bookings, NewBookingId, inflight[p].booking)
            /\ stamps' = create(stamps, NewBookingId, NewStamps)
            /\ inflight' = [inflight EXCEPT ![p].pc = "done", ![p].res = "ok",
                                            ![p].id = NewBookingId]
       ELSE /\ bookings' = bookings
            /\ stamps' = stamps
            /\ inflight' = [inflight EXCEPT ![p].pc = "done",
                                            ![p].res = "ValueError"]
    /\ UNCHANGED <<users, tables, last, now, pool>>

Quiet == \A p \in Procs : inflight[p].pc = "idle"

NextRace ==
    \/ Quiet /\ \E n \in Numbers, a \in BOOLEAN : create_table(n, a)
    \/ Quiet /\ \E t \in TableIds, r \in Table, f \in TableFieldLists :
          update_table(t, r, f)
    \/ Quiet /\ \E t \in TableIds : delete_table(t)
    \/ \E p \in Procs, r \in Booking : begin_create_booking(p, r)
    \/ \E p \in Procs : end_create_booking(p)
    \/ Return

SpecRace == Init /\ [][NextRace]_vars

\* ------------------------------------------------- an evening's bookings
\* The calls of the availability walk-through (src/test_availability.py):
\* create_table, create_booking with the check, and cancel_booking.  The
\* arguments of create_booking are drawn from three requests, written as
\* <<booking_date, duration_minutes>> with the date in minutes after 19:00:
\* 19:00 for 120 minutes, 19:30 for 60 and 21:00 for 60.
EveningSlots == {<<0, 120>>, <<30, 60>>, <<120, 60>>}

NextEvening ==
    \/ \E n \in Numbers, a \in BOOLEAN : create_table(n, a)
    \/ \E t \in TableIds, sl \in EveningSlots, st \in Status :
          create_booking(t, sl[1], sl[2], st, TRUE)
    \/ \E b \in BookingIds : cancel_booking(b)
    \/ Return

SpecEvening == Init /\ [][NextEvening]_vars

\* ------------------------------------------- update_booking by field list
\* update_booking called with a list of one field, as a caller that edits
\* one field does.  The bookings are pending ones on the first table, made
\* and updated with check_availability = True; the starts run over three
\* slots.
OneFieldLists == {NoFieldList, {"booking_date"}, {"duration_minutes"}}

SlotBooking == [table_id : {"t1"}, booking_date : 0..DefaultDuration,
                duration_minutes : Durations, status : {"pending"}]

NextFieldLists ==
    \/ \E n \in Numbers : create_table(n, TRUE)
    \/ \E r \in SlotBooking :
          /\ SpecIds \ DOMAIN bookings # {}
          /\ create_booking(r.table_id, r.booking_date, r.duration_minutes,
                            r.status, TRUE)
    \/ \E b \in SpecIds, r \in SlotBooking, f \in OneFieldLists :
          update_booking(b, r, f, TRUE)
    \/ \E b \in SpecIds : delete_booking(b)
    \/ Return

SpecFieldLists == Init /\ [][NextFieldLists]_vars

\* ------------------------------------------------ the by-date-range query
\* register_uuid() is called when the driver is built: psycopg2 hands the
\* uuid columns of a fetched row over as uuid.UUID objects, not as str
FetchedUuid == "uuid.UUID"

\* UUID(value): the constructor takes the hex form, a str, and calls
\* value.replace on it; on any other value that raises AttributeError
UUID_res(value_type) == IF value_type = "str" THEN "ok" ELSE "AttributeError"

\* SELECT * FROM "booking" WHERE booking_date >= %s AND booking_date <= %s
\* ORDER BY booking_date, as a sequence of booking ids
date_range_rows(start_date, end_date) ==
    OrderByDate({b \in DOMAIN bookings :
                    /\ bookings[b].booking_date >= start_date
                    /\ bookings[b].booking_date <= end_date})

\* the loop over the fetched rows builds Booking(user_id=UUID(row['user_id']),
\* table_id=UUID(row['table_id']), ..., id=UUID(row['id'])): it raises on the
\* first row
get_bookings_by_date_range_res(start_date, end_date) ==
    IF date_range_rows(start_date, end_date) = <<>>
    THEN "ok"
    ELSE UUID_res(FetchedUuid)

\* the list get_bookings_by_date_range returns when it returns
get_bookings_by_date_range(start_date, end_date) ==
    date_range_rows(start_date, end_date)

call_get_bookings_by_date_range(start_date, end_date) ==
    /\ last = Idle
    /\ last' = Result("get_bookings_by_date_range", NoBooking, "None", "None",
                      get_bookings_by_date_range_res(start_date, end_date))
    /\ UNCHANGED <<users, tables, bookings, inflight, stamps, now, pool>>

NextRange ==
    \/ \E r \in Booking :
          /\ SpecIds \ DOMAIN bookings # {}
          /\ create_booking(r.table_id, r.booking_date, r.duration_minutes,
                            r.status, FALSE)
    \/ \E b \in SpecIds : delete_booking(b)
    \/ \E s \in Times, e \in Times : call_get_bookings_by_date_range(s, e)
    \/ Return

SpecRange == Init /\ [][NextRange]_vars

\* --------------------------------------------------------- the queries
\* Every query of the backend is one SELECT through the driver's read (or
\* execute_query): it hands rows back and writes none.

\* the rows of "restaurant_table" with is_available = True
get_available_tables == {t \in DOMAIN tables : tables[t].is_available}

call_get_user_by_name(name) ==
    /\ last = Idle
    /\ last' = Result("get_user_by_name", NoBooking, "None", "None",
                      IF get_user_by_name(name) # NoUser THEN "ok" ELSE "None")
    /\ UNCHANGED <<users, tables, bookings, inflight, stamps, now, pool>>

call_get_table_by_id(table_id) ==
    /\ last = Idle
    /\ last' = Result("get_table_by_id", NoBooking, "None", "None",
                      IF get_table_by_id(table_id) # None THEN "ok" ELSE "None")
    /\ UNCHANGED <<users, tables, bookings, inflight, stamps, now, pool>>

call_get_table_by_number(number) ==
    /\ last = Idle
    /\ last' = Result("get_table_by_number", NoBooking, "None", "None",
                      IF get_table_by_number(number) # NoTable
                      THEN "ok" ELSE "None")
    /\ UNCHANGED <<users, tables, bookings, inflight, stamps, now, pool>>

\* variant, not the code: the query that drops the tables it does not list
call_get_available_tables_dropping ==
    /\ last = Idle
    /\ last' = Result("get_available_tables", NoBooking, "None", "None", "ok")
    /\ tables' = [t \in get_available_tables |-> tables[t]]
    /\ UNCHANGED <<users, bookings, inflight, stamps, now, pool>>

call_get_available_tables ==
    /\ last = Idle
    /\ last' = Result("get_available_tables", NoBooking, "None", "None", "ok")
    /\ UNCHANGED <<users, tables, bookings, inflight, stamps, now, pool>>

call_get_booking_by_id(booking_id) ==
    /\ last = Idle
    /\ last' = Result("get_booking_by_id", booking_id,
                      StoredStatus(booking_id), "None",
                      IF get_booking_by_id(booking_id) # None
                      THEN "ok" ELSE "None")
    /\ UNCHANGED <<users, tables, bookings, inflight, stamps, now, pool>>

call_get_bookings_by_table(table_id) ==
    /\ last = Idle
    /\ last' = Result("get_bookings_by_table", NoBooking, "None", "None",
                      IF get_bookings_by_table(table_id) # <<>>
                      THEN "ok" ELSE "None")
    /\ UNCHANGED <<users, tables, bookings, inflight, stamps, now, pool>>

QueryOps == {"check_table_availability", "get_user_by_name", "get_table_by_id",
             "get_table_by_number", "get_available_tables",
             "get_booking_by_id", "get_bookings_by_table",
             "get_bookings_by_date_range"}

\* a few users, tables and pending bookings are stored, and queried
NextQueries ==
    \/ \E n \in Names : create_user(n, "+1")
    \/ \E n \in Numbers, a \in BOOLEAN : create_table(n, a)
    \/ \E t \in TableIds, s \in Times :
          /\ SpecIds \ DOMAIN bookings # {}
          /\ create_booking(t, s, 1, "pending", FALSE)
    \/ \E t \in TableIds, s \in Times, d \in Durations,
          x \in SpecIds \cup {NoBooking} :
          call_check_table_availability(t, s, d, x)
    \/ \E n \in Names : call_get_user_by_name(n)
    \/ \E t \in TableIds : call_get_table_by_id(t)
    \/ \E n \in Numbers : call_get_table_by_number(n)
    \/ call_get_available_tables
    \/ \E b \in SpecIds : call_get_booking_by_id(b)
    \/ \E t \in TableIds : call_get_bookings_by_table(t)
    \/ \E s \in Times, e \in Times : call_get_bookings_by_date_range(s, e)
    \/ Return

SpecQueries == Init /\ [][NextQueries]_vars

\* ------------------------------------------- durations of any sign
\* duration_minutes is an int: a caller can pass zero or a negative number.
\* The calls are made with check_availability = True.
AnyDuration == -1..1

\* pending bookings, the default status
AnyBooking == [table_id : TableIds, booking_date : Times,
               duration_minutes : AnyDuration, status : {"pending"}]

NextAnyDuration ==
    \/ \E n \in Numbers, a \in BOOLEAN : create_table(n, a)
    \/ \E r \in AnyBooking :
          /\ SpecIds \ DOMAIN bookings # {}
          /\ create_booking(r.table_id, r.booking_date, r.duration_minutes,
                            r.status, TRUE)
    \/ \E b \in SpecIds, r \in AnyBooking, f \in BookingFieldLists :
          update_booking(b, r, f, TRUE)
    \/ \E b \in SpecIds : delete_booking(b)
    \/ Return

SpecAnyDuration == Init /\ [][NextAnyDuration]_vars

\* ------------------------------------------------ bookings under a clock
\* time passes between two calls
Tick ==
    /\ last = Idle
    /\ now < MaxClock
    /\ now' = now + 1
    /\ UNCHANGED <<users, tables, bookings, last, inflight, stamps, pool>>

\* the records the callers pass while the clock runs: one table, one start
ClockBooking == {r \in Booking : r.table_id = "t1" /\ r.booking_date = 0}

\* the booking calls with datetime.now() advancing between them; no table is
\* stored, bookings are created without the check
NextClock ==
    \/ Tick
    \/ \E r \in ClockBooking :
          /\ SpecIds \ DOMAIN bookings # {}
          /\ create_booking(r.table_id, r.booking_date, r.duration_minutes,
                            r.status, FALSE)
    \/ \E b \in SpecIds, r \in ClockBooking, f \in BookingFieldLists,
          c \in BOOLEAN :
          update_booking(b, r, f, c)
    \/ \E b \in SpecIds : delete_booking(b)
    \/ \E b \in SpecIds : confirm_booking(b)
    \/ \E b \in SpecIds : cancel_booking(b)
    \/ Return

SpecClock == Init /\ [][NextClock]_vars

\* ------------------------------------------ the driver's use of the pool
\* Every operation of the driver has the same frame:
\*   try:     conn = _get_connection(); cursor = conn.cursor(); execute ...
\*   except:  conn.rollback() if conn; raise Exception
\*   finally: cursor.close() if cursor; _return_connection(conn) if conn
\* read has no rollback in its except clause and no commit; execute_query
\* commits only with fetch=False.
DriverOps == {"create_table_from_entity", "execute_query", "execute_query_fetch",
              "create", "read", "update", "delete"}

\* the operations that call conn.commit() after their statement
Commits == DriverOps \ {"read", "execute_query_fetch"}
\* the operations whose except clause calls conn.rollback()
RollsBack == DriverOps \ {"read"}
\* the operations that work on the fetched rows after the statement, which
\* can raise (dict(None), entity_class(**kwargs))
PostProcesses == {"create", "read", "update", "execute_query_fetch"}

FreeConns == {c \in Conns : pool[c].holder = "pool"}

\* try: conn = self._get_connection().  getconn() hands out a connection of
\* the pool, or raises when all are checked out: then conn stays None and
\* the operation raises without a connection to return.
driver_get_connection(p, op) ==
    /\ last = Idle
    /\ inflight[p].pc = "idle"
    /\ IF FreeConns # {}
       THEN \E c \in FreeConns :
               /\ pool' = [pool EXCEPT ![c].holder = p]
               /\ inflight' = [inflight EXCEPT ![p] =
                     [pc |-> "acquired", op |-> op, conn |-> c,
                      raised |-> FALSE]]
       ELSE /\ pool' = pool
            /\ inflight' = [inflight EXCEPT ![p] =
                  [pc |-> "done", op |-> op, conn |-> "None",
                   raised |-> TRUE]]
    /\ UNCHANGED <<users, tables, bookings, stamps, last, now>>

\* cursor.execute(...): the statement begins a transaction on the connection
\* and goes through, or fails and leaves the transaction aborted
driver_execute(p) ==
    /\ inflight[p].pc = "acquired"
    /\ \E fails \in BOOLEAN :
          /\ pool' = [pool EXCEPT ![inflight[p].conn].txn =
                         IF fails THEN "inerror" ELSE "intrans"]
          /\ inflight' = [inflight EXCEPT ![p].pc =
                             IF fails THEN "except" ELSE "executed",
                                          ![p].raised = fails]
    /\ UNCHANGED <<users, tables, bookings, stamps, last, now>>

\* the rest of the try block: conn.commit() where the operation has one,
\* then the work on the fetched rows, which can raise
driver_commit(p) ==
    /\ inflight[p].pc = "executed"
    /\ pool' = [pool EXCEPT ![inflight[p].conn].txn =
                   IF inflight[p].op \in Commits THEN "idle" ELSE @]
    /\ \E raises \in {FALSE} \cup {inflight[p].op \in PostProcesses} :
          inflight' = [inflight EXCEPT ![p].pc =
                          IF raises THEN "except" ELSE "finally",
                                       ![p].raised = raises]
    /\ UNCHANGED <<users, tables, bookings, stamps, last, now>>

\* except Exception: conn.rollback() where the operation has one; raise
driver_except(p) ==
    /\ inflight[p].pc = "except"
    /\ pool' = [pool EXCEPT ![inflight[p].conn].txn =
                   IF inflight[p].op \in RollsBack THEN "idle" ELSE @]
    /\ inflight' = [inflight EXCEPT ![p].pc = "finally"]
    /\ UNCHANGED <<users, tables, bookings, stamps, last, now>>

\* variant, not the code: the connection handed back on the success path
\* only
driver_finally_leaking(p) ==
    /\ inflight[p].pc = "finally"
    /\ pool' = IF inflight[p].raised THEN pool
               ELSE [pool EXCEPT ![inflight[p].conn] =
                       [holder |-> "pool", txn |-> "idle", returned |-> @.txn]]
    /\ inflight' = [inflight EXCEPT ![p].pc = "done"]
    /\ UNCHANGED <<users, tables, bookings, stamps, last, now>>

\* finally: cursor.close(); self._return_connection(conn).  putconn takes
\* the connection back and resets it (a connection that is not idle is
\* rolled back by the pool).
driver_finally(p) ==
    /\ inflight[p].pc = "finally"
    /\ pool' = [pool EXCEPT ![inflight[p].conn] =
                   [holder |-> "pool", txn |-> "idle", returned |-> @.txn]]
    /\ inflight' = [inflight EXCEPT ![p].pc = "done"]
    /\ UNCHANGED <<users, tables, bookings, stamps, last, now>>

\* the operation has returned or raised; the caller goes on
driver_return(p) ==
    /\ inflight[p].pc = "done"
    /\ inflight' = [inflight EXCEPT ![p] = NotCalled]
    /\ UNCHANGED <<users, tables, bookings, stamps, last, now, pool>>

\* one step of the operation caller p is in
driver_step(p) ==
    \/ driver_execute(p)
    \/ driver_commit(p)
    \/ driver_except(p)
    \/ driver_finally(p)
    \/ driver_return(p)

NextPool ==
    \/ \E p \in Procs, op \in DriverOps : driver_get_connection(p, op)
    \/ \E p \in Procs : driver_step(p)

SpecPool == Init /\ [][NextPool]_vars

\* every caller that has begun an operation keeps running it
SpecPoolFair == SpecPool /\ \A p \in Procs : WF_vars(driver_step(p))

\* ------------------------------ concurrent confirm_booking, cancel_booking
\* confirm_booking and cancel_booking read the booking, set the status on the
\* record they read and hand it to update_booking with ["status"]: a read
\* and a write with no lock, version or status test between them.

\* booking = self.get_booking_by_id(booking_id); booking.status = "confirmed"
begin_confirm_booking(p, booking_id) ==
    /\ last = Idle
    /\ inflight[p].pc = "idle"
    /\ inflight' = [inflight EXCEPT ![p] =
          IF get_booking_by_id(booking_id) # None
          THEN [pc |-> "read", call |-> "confirm_booking", id |-> booking_id,
                booking |-> WithStatus(booking_id, "confirmed"),
                was |-> StoredStatus(booking_id),
                created_at |-> stamps[booking_id].created_at,
                res |-> "None"]
          ELSE [pc |-> "done", call |-> "confirm_booking", id |-> booking_id,
                booking |-> None, was |-> "None", created_at |-> now,
                res |-> "None"]]
    /\ UNCHANGED <<users, tables, bookings, last, stamps, now, pool>>

\* return self.update_booking(booking, update_fields=["status"])
end_confirm_booking(p) ==
    /\ inflight[p].pc = "read"
    /\ inflight[p].call = "confirm_booking"
    /\ LET res == update_booking_res(inflight[p].id, inflight[p].booking, TRUE)
       IN  /\ bookings' = update_booking_rows(res, inflight[p].id,
                                              inflight[p].booking, {"status"})
           /\ stamps' = update_booking_stamps(res, inflight[p].id,
                                              inflight[p].created_at, {"status"})
           /\ inflight' = [inflight EXCEPT ![p].pc = "done", ![p].res = res]
    /\ UNCHANGED <<users, tables, last, now, pool>>

\* booking = self.get_booking_by_id(booking_id); booking.status = "cancelled"
begin_cancel_booking(p, booking_id) ==
    /\ last = Idle
    /\ inflight[p].pc = "idle"
    /\ inflight' = [inflight EXCEPT ![p] =
          IF get_booking_by_id(booking_id) # None
          THEN [pc |-> "read", call |-> "cancel_booking", id |-> booking_id,
                booking |-> WithStatus(booking_id, "cancelled"),
                was |-> StoredStatus(booking_id),
                created_at |-> stamps[booking_id].created_at,
                res |-> "None"]
          ELSE [pc |-> "done", call |-> "cancel_booking", id |-> booking_id,
                booking |-> None, was |-> "None", created_at |-> now,
                res |-> "None"]]
    /\ UNCHANGED <<users, tables, bookings, last, stamps, now, pool>>

\* return self.update_booking(booking, update_fields=["status"])
end_cancel_booking(p) ==
    /\ inflight[p].pc = "read"
    /\ inflight[p].call = "cancel_booking"
    /\ LET res == update_booking_res(inflight[p].id, inflight[p].booking, TRUE)
       IN  /\ bookings' = update_booking_rows(res, inflight[p].id,
                                              inflight[p].booking, {"status"})
           /\ stamps' = update_booking_stamps(res, inflight[p].id,
                                              inflight[p].created_at, {"status"})
           /\ inflight' = [inflight EXCEPT ![p].pc = "done", ![p].res = res]
    /\ UNCHANGED <<users, tables, last, now, pool>>

\* bookings are made first, one call at a time; then each caller makes one
\* confirm_booking or cancel_booking call
NextStatusRace ==
    \/ \E r \in ClockBooking :
          /\ Quiet
          /\ SpecIds \ DOMAIN bookings # {}
          /\ create_booking(r.table_id, r.booking_date, r.duration_minutes,
                            r.status, FALSE)
    \/ \E p \in Procs, b \in SpecIds : begin_confirm_booking(p, b)
    \/ \E p \in Procs : end_confirm_booking(p)
    \/ \E p \in Procs, b \in SpecIds : begin_cancel_booking(p, b)
    \/ \E p \in Procs : end_cancel_booking(p)
    \/ Return

SpecStatusRace == Init /\ [][NextStatusRace]_vars

\* ------------------------------- concurrent create_user and create_table
\* create_user and create_table look the name or number up and insert as two
\* statements; the schema carries no UNIQUE constraint on either column.

\* the first statement of create_user: get_user_by_name
begin_create_user(p, name, phone) ==
    /\ inflight[p].pc = "idle"
    /\ inflight' = [inflight EXCEPT ![p] =
          [pc |-> "looked_up", call |-> "create_user",
           user |-> [name |-> name, phone |-> phone],
           existing |-> get_user_by_name(name),
           res |-> "None"]]
    /\ UNCHANGED <<users, tables, bookings, last, stamps, now, pool>>

\* the second statement of create_user: raise ValueError, or insert the row
end_create_user(p) ==
    /\ inflight[p].pc = "looked_up"
    /\ inflight[p].call = "create_user"
    /\ IF inflight[p].existing # NoUser
       THEN /\ users' = users
            /\ inflight' = [inflight EXCEPT ![p].pc = "done",
                                            ![p].res = "ValueError"]
       ELSE /\ users' = create(users, NewUserId, inflight[p].user)
            /\ inflight' = [inflight EXCEPT ![p].pc = "done", ![p].res = "ok"]
    /\ UNCHANGED <<tables, bookings, last, stamps, now, pool>>

\* the first statement of create_table: get_table_by_number
begin_create_table(p, number, is_available) ==
    /\ inflight[p].pc = "idle"
    /\ inflight' = [inflight EXCEPT ![p] =
          [pc |-> "looked_up", call |-> "create_table",
           table |-> [number |-> number, is_available |-> is_available],
           existing |-> get_table_by_number(number),
           res |-> "None"]]
    /\ UNCHANGED <<users, tables, bookings, last, stamps, now, pool>>

\* the second statement of create_table: raise ValueError, or insert the row
end_create_table(p) ==
    /\ inflight[p].pc = "looked_up"
    /\ inflight[p].call = "create_table"
    /\ IF inflight[p].existing # NoTable
       THEN /\ tables' = tables
            /\ inflight' = [inflight EXCEPT ![p].pc = "done",
                                            ![p].res = "ValueError"]
       ELSE /\ tables' = create(tables, NewTableId, inflight[p].table)
            /\ inflight' = [inflight EXCEPT ![p].pc = "done", ![p].res = "ok"]
    /\ UNCHANGED <<users, bookings, last, stamps, now, pool>>

\* each caller makes one call
NextCreateRace ==
    \/ \E p \in Procs, n \in Names, ph \in Phones : begin_create_user(p, n, ph)
    \/ \E p \in Procs : end_create_user(p)
    \/ \E p \in Procs, n \in Numbers, a \in BOOLEAN :
          begin_create_table(p, n, a)
    \/ \E p \in Procs : end_create_table(p)

SpecCreateRace == Init /\ [][NextCreateRace]_vars

\* ------------------------------------------------------------- properties
ActiveStatus == {"pending", "confirmed"}

Active(b) == bookings[b].status \in ActiveStatus

EndOf(r) == r.booking_date + r.duration_minutes

\* the half-open intervals [s1, e1) and [s2, e2) share a point
Overlaps(s1, e1, s2, e2) == s1 < e2 /\ s2 < e1

\* the table exists and its availability flag is on
TableOpen(t) == t \in DOMAIN tables /\ tables[t].is_available

\* the active bookings on table t, other than x, that meet [s, s + d)
OthersOn(t, s, d, x) ==
    {c \in DOMAIN bookings \ {x} :
        /\ bookings[c].table_id = t
        /\ Active(c)
        /\ Overlaps(s, s + d, bookings[c].booking_date, EndOf(bookings[c]))}

\* the states in which a call can be made; every reachable content of the
\* store occurs in one of them
Ready == last = Idle

\* C1: overlap exclusion.  In every state reached by calls issued one at a
\* time, create_booking and update_booking with check_availability = True,
\* two distinct active bookings on the same table have disjoint intervals.
C1_OverlapExclusion ==
    \A a \in DOMAIN bookings, b \in DOMAIN bookings :
        (/\ a # b
         /\ bookings[a].table_id = bookings[b].table_id
         /\ Active(a)
         /\ Active(b))
        => ~Overlaps(bookings[a].booking_date, EndOf(bookings[a]),
                     bookings[b].booking_date, EndOf(bookings[b]))

\* C2: the status machine of confirm_booking and cancel_booking.  confirm
\* takes pending or confirmed to confirmed, cancel takes pending or
\* confirmed to cancelled, and neither call changes a cancelled booking.
C2_StatusMachine ==
    /\ (last.op = "confirm_booking" /\ last.was \in ActiveStatus)
       => StoredStatus(last.id) = "confirmed"
    /\ (last.op = "cancel_booking" /\ last.was \in ActiveStatus)
       => StoredStatus(last.id) = "cancelled"
    /\ (last.op \in {"confirm_booking", "cancel_booking"}
        /\ last.was = "cancelled")
       => StoredStatus(last.id) = "cancelled"

C4_BothInsertsSucceed ==
    \A p \in Procs, q \in Procs :
        (/\ p # q
         /\ inflight[p].pc = "done"
         /\ inflight[q].pc = "done"
         /\ inflight[p].booking.table_id = inflight[q].booking.table_id
         /\ inflight[p].booking.status \in ActiveStatus
         /\ inflight[q].booking.status \in ActiveStatus
         /\ Overlaps(inflight[p].booking.booking_date, EndOf(inflight[p].booking),
                     inflight[q].booking.booking_date, EndOf(inflight[q].booking))
         /\ inflight[p].table # None
         /\ inflight[p].table.is_available
         /\ inflight[q].table # None
         /\ inflight[q].table.is_available
         /\ inflight[q].id \notin inflight[p].seen
         /\ inflight[p].id \notin inflight[q].seen)
        => /\ inflight[p].res = "ok"
           /\ inflight[q].res = "ok"
           /\ inflight[p].id # inflight[q].id
           /\ {inflight[p].id, inflight[q].id} \subseteq DOMAIN bookings
           /\ bookings[inflight[p].id] = inflight[p].booking
           /\ bookings[inflight[q].id] = inflight[q].booking
           /\ ~C1_OverlapExclusion

\* both racing calls returned and the store holds a double booking
C4_Witness ==
    /\ inflight["p1"].pc = "done"
    /\ inflight["p2"].pc = "done"
    /\ inflight["p1"].res = "ok"
    /\ inflight["p2"].res = "ok"
    /\ inflight["p1"].seen = {}
    /\ inflight["p2"].seen = {}
    /\ inflight["p1"].booking.table_id = inflight["p2"].booking.table_id
    /\ Active(inflight["p1"].id)
    /\ Active(inflight["p2"].id)
    /\ Overlaps(inflight["p1"].booking.booking_date, EndOf(inflight["p1"].booking),
                inflight["p2"].booking.booking_date, EndOf(inflight["p2"].booking))

\* C5: check_table_availability(table, start, duration, exclude) answers
\* available exactly when the table exists, its flag is on, and no active
\* booking on that table other than `exclude` meets [start, start+duration);
\* cancelled bookings and bookings on other tables do not enter the answer.
C5_CheckIffCondition ==
    Ready =>
    \A t \in TableIds, s \in Times, d \in Durations,
       x \in BookingIds \cup {NoBooking} :
        check_table_availability(t, s, d, x).is_available
        <=> (TableOpen(t) /\ OthersOn(t, s, d, x) = {})

\* a check that excluded an active booking answered True while the store
\* also holds a cancelled booking
C5_Witness ==
    /\ last.op = "check_table_availability"
    /\ last.res = "True"
    /\ last.was \in ActiveStatus
    /\ \E c \in DOMAIN bookings : bookings[c].status = "cancelled"

\* C6: shared boundaries do not conflict.  With b the only active booking
\* [T, T+d) on an available table, create_booking (checked) on that table is
\* accepted when it starts exactly at T+d, accepted when it ends exactly at
\* T, and rejected for every [s, s+e) with s < T+d and T < s+e.
C6_SharedBoundaries ==
    Ready =>
    \A b \in DOMAIN bookings :
        LET t == bookings[b].table_id
            T == bookings[b].booking_date
            d == bookings[b].duration_minutes
        IN  (/\ Active(b)
             /\ TableOpen(t)
             /\ \A c \in DOMAIN bookings \ {b} :
                    bookings[c].table_id = t => ~Active(c))
            => \A s \in Times, e \in Durations :
                 /\ s = T + d => create_booking_res(t, s, e, TRUE) = "ok"
                 /\ s + e = T => create_booking_res(t, s, e, TRUE) = "ok"
                 /\ (s < T + d /\ T < s + e)
                    => create_booking_res(t, s, e, TRUE) = "ValueError"

\* create_booking was accepted for a booking that starts where the only other
\* active booking of the table ends
C6_Witness ==
    /\ last.op = "create_booking"
    /\ last.res = "ok"
    /\ Active(last.id)
    /\ TableOpen(bookings[last.id].table_id)
    /\ \E b \in DOMAIN bookings \ {last.id} :
          /\ bookings[b].table_id = bookings[last.id].table_id
          /\ Active(b)
          /\ EndOf(bookings[b]) = bookings[last.id].booking_date

\* C7: fail closed.  For a table id that matches no stored table, or a table
\* whose flag is off, check_table_availability answers not available
\* whatever bookings exist, and create_booking (checked) on it raises and
\* inserts no row.
C7_FailClosed ==
    Ready =>
    \A t \in TableIds, s \in Times, d \in Durations :
        ~TableOpen(t)
        => /\ \A x \in BookingIds \cup {NoBooking} :
                 ~check_table_availability(t, s, d, x).is_available
           /\ create_booking_res(t, s, d, TRUE) = "ValueError"
           /\ \A st \in Status :
                 create_booking_rows(create_booking_res(t, s, d, TRUE),
                                     t, s, d, st) = bookings

\* create_booking was rejected while no table was available: one table is
\* stored with its flag off, and a booking exists
C7_Witness ==
    /\ last.op = "create_booking"
    /\ last.res = "ValueError"
    /\ \A t \in TableIds : ~TableOpen(t)
    /\ DOMAIN tables # {}
    /\ DOMAIN bookings # {}

\* C8 as stated: after cancel_booking of a booking B that was the only active
\* booking meeting some interval I on its available table, create_booking
\* (checked) for exactly B's start and duration succeeds.
C8_FormerSlotAlwaysFree ==
    (/\ last.op = "cancel_booking"
     /\ last.res = "ok"
     /\ last.was \in ActiveStatus
     /\ TableOpen(bookings[last.id].table_id))
    => LET B == bookings[last.id] IN
       (\E s \in Times, d \in Durations :
           /\ Overlaps(s, s + d, B.booking_date, EndOf(B))
           /\ OthersOn(B.table_id, s, d, last.id) = {})
       => create_booking_res(B.table_id, B.booking_date,
                             B.duration_minutes, TRUE) = "ok"

\* C8: cancellation releases the slot.  After cancel_booking of an active
\* booking B on an available table, B is cancelled, and for every interval I
\* that B met and no other active booking of the table meets,
\* check_table_availability for I answers available and create_booking
\* (checked) for I succeeds; create_booking for B's own start and duration
\* succeeds when no other active booking of the table meets B's interval.
C8_CancelReleasesSlot ==
    (/\ last.op = "cancel_booking"
     /\ last.res = "ok"
     /\ last.was \in ActiveStatus
     /\ TableOpen(bookings[last.id].table_id))
    => LET B == bookings[last.id] IN
       /\ B.status = "cancelled"
       /\ \A s \in Times, d \in Durations :
            (/\ Overlaps(s, s + d, B.booking_date, EndOf(B))
             /\ OthersOn(B.table_id, s, d, last.id) = {})
            => /\ check_table_availability(B.table_id, s, d,
                                           NoBooking).is_available
               /\ create_booking_res(B.table_id, s, d, TRUE) = "ok"
       /\ OthersOn(B.table_id, B.booking_date, B.duration_minutes, last.id) = {}
          => create_booking_res(B.table_id, B.booking_date,
                                B.duration_minutes, TRUE) = "ok"

\* an active booking was cancelled on an available table that holds another
\* active booking, which does not meet the cancelled one
C8_Witness ==
    /\ last.op = "cancel_booking"
    /\ last.res = "ok"
    /\ last.was \in ActiveStatus
    /\ TableOpen(bookings[last.id].table_id)
    /\ OthersOn(bookings[last.id].table_id, bookings[last.id].booking_date,
                bookings[last.id].duration_minutes, last.id) = {}
    /\ \E c \in DOMAIN bookings \ {last.id} :
          bookings[c].table_id = bookings[last.id].table_id /\ Active(c)

\* C9 as stated: update_booking of an active booking to an interval of its
\* table that meets no other active booking succeeds, and is rejected
\* whenever another active booking on the target table meets the new
\* interval (the target table taken to be available).
C9_SelfExclusionAsStated ==
    Ready =>
    \A b \in DOMAIN bookings, r \in Booking :
        (Active(b) /\ TableOpen(r.table_id))
        => LET others == OthersOn(r.table_id, r.booking_date,
                                  r.duration_minutes, b)
           IN  /\ (/\ r.table_id = bookings[b].table_id
                   /\ Overlaps(r.booking_date, EndOf(r),
                               bookings[b].booking_date, EndOf(bookings[b]))
                   /\ others = {})
                  => update_booking_res(b, r, TRUE) = "ok"
               /\ others # {} => update_booking_res(b, r, TRUE) = "ValueError"

\* C9: self-exclusion on update.  update_booking (checked) of a stored
\* booking is rejected exactly when the passed record changes its table,
\* start or duration and the target table is missing, has its flag off, or
\* holds another active booking that meets the new interval.  The booking's
\* own stored interval never causes a rejection, and a call that leaves
\* table, start and duration as stored is accepted whatever else the table
\* holds.
C9_SelfExclusion ==
    Ready =>
    \A b \in DOMAIN bookings, r \in Booking :
        LET changed == \/ r.table_id # bookings[b].table_id
                       \/ r.booking_date # bookings[b].booking_date
                       \/ r.duration_minutes # bookings[b].duration_minutes
            others == OthersOn(r.table_id, r.booking_date,
                               r.duration_minutes, b)
        IN  update_booking_res(b, r, TRUE) =
               IF changed /\ (~TableOpen(r.table_id) \/ others # {})
               THEN "ValueError" ELSE "ok"

\* update_booking of an active booking was rejected while every table is
\* available and another active booking is stored
C9_Witness ==
    /\ last.op = "update_booking"
    /\ last.res = "ValueError"
    /\ last.was \in ActiveStatus
    /\ \A t \in TableIds : TableOpen(t)
    /\ \E c \in DOMAIN bookings \ {last.id} : Active(c)

\* C10: idempotent cancellation.  cancel_booking of a booking whose stored
\* status is cancelled raises nothing and leaves the status cancelled; a
\* second cancel_booking leaves every row as the first one left it.
C10_IdempotentCancel ==
    /\ (last.op = "cancel_booking" /\ last.was = "cancelled")
       => /\ last.res = "ok"
          /\ StoredStatus(last.id) = "cancelled"
    /\ Ready
       => \A b \in DOMAIN bookings :
             bookings[b].status = "cancelled"
             => /\ cancel_booking_res(b) = "ok"
                /\ update_booking_rows(cancel_booking_res(b), b,
                       WithStatus(b, "cancelled"), {"status"}) = bookings

\* cancel_booking returned from a booking that was already cancelled
C10_Witness ==
    /\ last.op = "cancel_booking"
    /\ last.was = "cancelled"
    /\ last.res = "ok"
    /\ StoredStatus(last.id) = "cancelled"

\* C11: user name uniqueness.  Under create_user, update_user and delete_user
\* issued one at a time no two stored users share a name, and create_user
\* with the name of a stored user raises ValueError and leaves the users as
\* they were.
C11_UserNameUnique ==
    /\ \A u \in DOMAIN users, v \in DOMAIN users :
          u # v => users[u].name # users[v].name
    /\ Ready
       => \A n \in Names, ph \in Phones :
             (\E u \in DOMAIN users : users[u].name = n)
             => /\ create_user_res(n) = "ValueError"
                /\ create_user_rows(create_user_res(n), n, ph) = users

\* create_user was refused while a user is stored
C11_Witness ==
    /\ last.op = "create_user"
    /\ last.res = "ValueError"
    /\ DOMAIN users # {}

\* C13: update_user excludes the user's own id from the name check.  With
\* name among the written fields or no field list, update_user of a stored
\* user raises ValueError exactly when a different stored user holds the
\* passed name, and then changes no user; keeping its own name, or taking a
\* name nobody else holds, it succeeds and stores the name.
C13_UpdateUserSelfExclusion ==
    Ready
    => \A u \in DOMAIN users, r \in User, f \in {NoFieldList, {"name"}} :
          LET taken == \E v \in DOMAIN users \ {u} : users[v].name = r.name
              res == update_user_res(u, r, f)
              rows == update_user_rows(res, u, r, f)
          IN  /\ res = IF taken THEN "ValueError" ELSE "ok"
              /\ taken => rows = users
              /\ ~taken => rows[u].name = r.name

\* update_user succeeded while two users are stored
C13_Witness ==
    /\ last.op = "update_user"
    /\ last.res = "ok"
    /\ Cardinality(DOMAIN users) = 2

\* C12: table number uniqueness.  Under create_table, update_table and
\* delete_table issued one at a time no two stored tables share a number;
\* create_table with the number of a stored table raises ValueError and
\* writes no row; update_table that would give a table the number of a
\* different stored table raises ValueError and leaves the tables unchanged.
C12_TableNumberUnique ==
    /\ \A t \in DOMAIN tables, u \in DOMAIN tables :
          t # u => tables[t].number # tables[u].number
    /\ Ready
       => /\ \A n \in Numbers, a \in BOOLEAN :
                (\E t \in DOMAIN tables : tables[t].number = n)
                => /\ create_table_res(n) = "ValueError"
                   /\ create_table_rows(create_table_res(n), n, a) = tables
          /\ \A t \in DOMAIN tables, r \in Table :
                (\E u \in DOMAIN tables \ {t} : tables[u].number = r.number)
                => /\ update_table_res(t, r, NoFieldList) = "ValueError"
                   /\ update_table_rows(update_table_res(t, r, NoFieldList),
                                        t, r, NoFieldList) = tables

\* update_table was refused while two tables are stored
C12_Witness ==
    /\ last.op = "update_table"
    /\ last.res = "ValueError"
    /\ Cardinality(DOMAIN tables) = 2

\* C14: uniqueness under interleaving.  When two create_user calls with the
\* same name, or two create_table calls with the same number, run
\* concurrently, at most one succeeds, and the store never holds two users
\* with one name or two tables with one number.
C14_UniqueUnderInterleaving ==
    /\ \A u \in DOMAIN users, v \in DOMAIN users :
          u # v => users[u].name # users[v].name
    /\ \A t \in DOMAIN tables, u \in DOMAIN tables :
          t # u => tables[t].number # tables[u].number
    /\ \A p \in Procs, q \in Procs :
          (/\ p # q
           /\ inflight[p].pc = "done"
           /\ inflight[q].pc = "done"
           /\ inflight[p].call = inflight[q].call
           /\ \/ /\ inflight[p].call = "create_user"
                 /\ inflight[p].user.name = inflight[q].user.name
              \/ /\ inflight[p].call = "create_table"
                 /\ inflight[p].table.number = inflight[q].table.number)
          => ~(inflight[p].res = "ok" /\ inflight[q].res = "ok")

\* C15: a rejected create_booking changes nothing.  create_booking (checked)
\* for an interval that meets an active booking of an available table raises
\* ValueError, and a create_booking call that raises ValueError leaves the
\* users, the tables and the bookings exactly as they were.
C15_RejectedCreateChangesNothing ==
    /\ [](Ready
          => \A t \in TableIds, s \in Times, d \in Durations :
                (TableOpen(t) /\ OthersOn(t, s, d, NoBooking) # {})
                => create_booking_res(t, s, d, TRUE) = "ValueError")
    /\ [][(last'.op = "create_booking" /\ last'.res = "ValueError")
          => /\ users' = users
             /\ tables' = tables
             /\ bookings' = bookings]_vars

\* create_booking was refused while every table is available: the refusal
\* comes from a conflict
C15_Witness ==
    /\ last.op = "create_booking"
    /\ last.res = "ValueError"
    /\ \A t \in TableIds : TableOpen(t)
    /\ \E b \in DOMAIN bookings : Active(b)

C17_MissingIdReturnsNone ==
    /\ (last.op \in {"confirm_booking", "cancel_booking"} /\ last.was = "None")
       => /\ last.res = "None"
          /\ last.id \notin DOMAIN bookings
    /\ Ready
       => \A b \in BookingIds \ DOMAIN bookings :
             /\ confirm_booking_res(b) = "None"
             /\ cancel_booking_res(b) = "None"
             /\ confirm_booking_rows(b) = bookings
             /\ cancel_booking_rows(b) = bookings

\* confirm_booking returned None for an id that is not stored, while another
\* booking is
C17_Witness ==
    /\ last.op = "confirm_booking"
    /\ last.was = "None"
    /\ last.res = "None"
    /\ DOMAIN bookings # {}

\* C18: the booking named in the reason.  When check_table_availability
\* answers not available because of an overlap, the booking it names is a
\* stored booking of the requested table, pending or confirmed, other than
\* exclude_booking_id, whose interval meets the requested one, and no such
\* booking starts earlier; a refusal for a missing or switched-off table
\* names no booking.
C18_ReasonNamesFirstConflict ==
    Ready
    => \A t \in TableIds, s \in Times, d \in Durations,
          x \in BookingIds \cup {NoBooking} :
          LET c == check_table_availability(t, s, d, x)
              candidates == OthersOn(t, s, d, x)
          IN  IF TableOpen(t) /\ candidates # {}
              THEN /\ ~c.is_available
                   /\ c.conflict \in candidates
                   /\ \A o \in candidates :
                         bookings[c.conflict].booking_date
                            <= bookings[o].booking_date
              ELSE c.conflict = NoBooking

\* check_table_availability answered False while every table is available
\* and one table holds two active bookings that start at different times
C18_Witness ==
    /\ last.op = "check_table_availability"
    /\ last.res = "False"
    /\ \A t \in TableIds : TableOpen(t)
    /\ \E a \in DOMAIN bookings, b \in DOMAIN bookings :
          /\ bookings[a].table_id = bookings[b].table_id
          /\ Active(a)
          /\ Active(b)
          /\ bookings[a].booking_date < bookings[b].booking_date

\* C19: the end-to-end scenario.  On an available table, with booking A
\* stored at 19:00 for 120 minutes, confirmed: create_booking at 19:30 for 60
\* is refused and the reason names A; create_booking at 21:00 for 60 is
\* accepted (the table holding no active booking at 21:00 yet); right after
\* cancel_booking(A), create_booking at 19:30 for 60 is accepted; and no
\* state holds two overlapping active bookings on a table.
C19_EveningScenario ==
    /\ C1_OverlapExclusion
    /\ \A a \in DOMAIN bookings :
          LET t == bookings[a].table_id IN
          (/\ TableOpen(t)
           /\ bookings[a].booking_date = 0
           /\ bookings[a].duration_minutes = 120)
          => /\ (Ready /\ bookings[a].status = "confirmed")
                => /\ create_booking_res(t, 30, 60, TRUE) = "ValueError"
                   /\ check_table_availability(t, 30, 60, NoBooking).conflict = a
                   /\ OthersOn(t, 120, 60, NoBooking) = {}
                      => create_booking_res(t, 120, 60, TRUE) = "ok"
             /\ (/\ last.op = "cancel_booking"
                 /\ last.id = a
                 /\ last.was = "confirmed")
                => /\ last.res = "ok"
                   /\ bookings[a].status = "cancelled"
                   /\ create_booking_res(t, 30, 60, TRUE) = "ok"

\* the end of the scenario: A (the first booking made) is cancelled, C (the
\* second) stands at 21:00, and B (the third) has just been accepted at 19:30
C19_Witness ==
    /\ last.op = "create_booking"
    /\ last.res = "ok"
    /\ last.id = 3
    /\ DOMAIN bookings = {1, 2, 3}
    /\ TableOpen(bookings[1].table_id)
    /\ bookings[1] = [table_id |-> bookings[1].table_id, booking_date |-> 0,
                      duration_minutes |-> 120, status |-> "cancelled"]
    /\ bookings[2] = [table_id |-> bookings[1].table_id, booking_date |-> 120,
                      duration_minutes |-> 60, status |-> "confirmed"]
    /\ bookings[3] = [table_id |-> bookings[1].table_id, booking_date |-> 30,
                      duration_minutes |-> 60, status |-> "confirmed"]

\* C20: the persistence update of a record whose identifier matches no stored
\* row fails with an error and leaves every stored row as it was; on a
\* matching row it hands back the record as the row is stored after the
\* update, whichever fields were listed.
C20_UpdateMissingOrRefreshed ==
    Ready =>
    \A b \in BookingIds, r \in Booking, f \in BookingFieldLists :
        LET update_fields == IF f = NoFieldList THEN BookingFields ELSE f IN
        IF b \notin DOMAIN bookings
        THEN /\ update_raises(bookings, b)
             /\ update(bookings, b, r, update_fields) = bookings
             /\ \A c \in BOOLEAN :
                   /\ update_booking_res(b, r, c) = "Exception"
                   /\ update_booking_rows(update_booking_res(b, r, c), b, r, f)
                        = bookings
        ELSE /\ ~update_raises(bookings, b)
             /\ update_returns(bookings, b, r, update_fields)
                  = update_booking_rows("ok", b, r, f)[b]

\* update_booking has just failed on an identifier no stored row carries,
\* with other rows stored
C20_Witness ==
    /\ last.op = "update_booking"
    /\ last.res = "Exception"
    /\ last.id \notin DOMAIN bookings
    /\ DOMAIN bookings # {}

C25_UpdatedAtStamped ==
    /\ [][(/\ last'.op \in {"update_booking", "confirm_booking",
                            "cancel_booking"}
           /\ last'.res = "ok")
          => /\ last'.id \in DOMAIN stamps'
             /\ stamps'[last'.id].updated_at = now]_vars
    /\ [][\A b \in DOMAIN stamps \cap DOMAIN stamps' :
             stamps'[b].updated_at >= stamps[b].updated_at]_vars

\* cancel_booking, which passes the field list ["status"], has gone through
\* on a booking made at an earlier time
C25_Witness ==
    /\ last.op = "cancel_booking"
    /\ last.res = "ok"
    /\ stamps[last.id].created_at < now
    /\ stamps[last.id].updated_at = now

\* C22: delete answers true exactly when a row with that identifier was
\* stored; then exactly that row is removed, otherwise the rows are
\* unchanged; a second delete of the same identifier answers false.
\* delete_booking and delete_table hand on what delete did.
C22_DeleteReturnsWhetherRemoved ==
    /\ [](Ready =>
          /\ \A b \in BookingIds :
                LET rows == delete(bookings, b) IN
                /\ delete_returns(bookings, b) <=> b \in DOMAIN bookings
                /\ DOMAIN rows = DOMAIN bookings \ {b}
                /\ \A i \in DOMAIN rows : rows[i] = bookings[i]
                /\ b \notin DOMAIN bookings => rows = bookings
                /\ ~delete_returns(rows, b)
                /\ delete(rows, b) = rows
          /\ \A t \in TableIds :
                LET rows == delete(tables, t) IN
                /\ delete_returns(tables, t) <=> t \in DOMAIN tables
                /\ DOMAIN rows = DOMAIN tables \ {t}
                /\ \A i \in DOMAIN rows : rows[i] = tables[i]
                /\ t \notin DOMAIN tables => rows = tables
                /\ ~delete_returns(rows, t)
                /\ delete(rows, t) = rows)
    /\ [][last'.op = "delete_booking"
          => /\ last'.res = IF last'.id \in DOMAIN bookings
                            THEN "True" ELSE "False"
             /\ DOMAIN bookings' = DOMAIN bookings \ {last'.id}
             /\ \A i \in DOMAIN bookings' : bookings'[i] = bookings[i]
             /\ tables' = tables
             /\ users' = users]_vars
    /\ [][last'.op = "delete_table"
          => /\ last'.res = IF tables' # tables THEN "True" ELSE "False"
             /\ Cardinality(DOMAIN tables \ DOMAIN tables') <= 1
             /\ \A i \in DOMAIN tables' :
                   i \in DOMAIN tables /\ tables'[i] = tables[i]
             /\ bookings' = bookings
             /\ users' = users]_vars

\* delete_booking has removed a row and left another one stored
C22_Witness ==
    /\ last.op = "delete_booking"
    /\ last.res = "True"
    /\ last.id \notin DOMAIN bookings
    /\ DOMAIN bookings # {}

\* the connection caller p has checked out
HeldBy(p) == {c \in Conns : pool[c].holder = p}

\* C23: scoped acquire and release.  A caller has a connection checked out
\* only while it is inside an operation, at most one, the one the operation
\* took; every operation that took a connection hands it back on every exit
\* path, so a caller that is not inside an operation holds none: the number
\* of connections it has checked out is the same after the operation as
\* before it.
C23_ScopedAcquireRelease ==
    /\ [](\A p \in Procs :
            /\ inflight[p].pc \in {"idle", "done"} => HeldBy(p) = {}
            /\ inflight[p].pc \in {"acquired", "executed", "except", "finally"}
                  => HeldBy(p) = {inflight[p].conn})
    /\ \A p \in Procs : (HeldBy(p) # {}) ~> (HeldBy(p) = {})
    /\ \A p \in Procs :
          (inflight[p].pc # "idle") ~> (inflight[p].pc = "idle" /\ HeldBy(p) = {})

\* an operation that raised has ended, its connection is back in the pool
C23_Witness ==
    \E p \in Procs :
        /\ inflight[p].pc = "done"
        /\ inflight[p].raised
        /\ inflight[p].conn \in Conns
        /\ pool[inflight[p].conn].holder = "pool"

\* C24: every operation commits on success and rolls back on failure before
\* its connection goes back to the pool: no connection is handed to the pool
\* with a transaction open or aborted.
C24_ReturnedCommittedOrRolledBack ==
    \A c \in Conns : pool[c].returned = "idle"

\* C26: referential integrity: the table_id of every stored booking is the
\* identifier of a stored table.
C26_ReferentialIntegrity ==
    \A b \in DOMAIN bookings : bookings[b].table_id \in DOMAIN tables

\* C27: every stored booking has a positive duration: create_booking and
\* update_booking with a duration of zero or less are refused and write
\* nothing.
C27_PositiveDuration ==
    /\ [](\A b \in DOMAIN bookings : bookings[b].duration_minutes > 0)
    /\ [][(/\ last'.op \in {"create_booking", "update_booking"}
           /\ last'.res = "ok"
           /\ last'.id \in DOMAIN bookings')
          => bookings'[last'.id].duration_minutes > 0]_vars

\* C28: the stored status of a booking create_booking has just stored is
\* pending or confirmed.
C28_InitialStatus ==
    [][(last'.op = "create_booking" /\ last'.res = "ok")
       => bookings'[last'.id].status \in {"pending", "confirmed"}]_vars

\* C29: create_booking with check_availability = False stores the booking
\* whatever the table holds: it succeeds and adds exactly one row, the
\* booking asked for, also when the interval meets an active booking of the
\* table, when the table's flag is off and when the table is not stored.
C29_UncheckedCreatePersists ==
    (Ready /\ BookingIds \ DOMAIN bookings # {}) =>
    \A r \in Booking :
        LET res == create_booking_res(r.table_id, r.booking_date,
                                      r.duration_minutes, FALSE)
            rows == create_booking_rows(res, r.table_id, r.booking_date,
                                        r.duration_minutes, r.status)
        IN  /\ res = "ok"
            /\ NewBookingId \notin DOMAIN bookings
            /\ DOMAIN rows = DOMAIN bookings \cup {NewBookingId}
            /\ rows[NewBookingId] = r
            /\ \A b \in DOMAIN bookings : rows[b] = bookings[b]

\* a booking has just been stored on a table that is not stored, over an
\* active booking of the same table id
C29_Witness ==
    /\ last.op = "create_booking"
    /\ last.res = "ok"
    /\ bookings[last.id].table_id \notin DOMAIN tables
    /\ Active(last.id)
    /\ OthersOn(bookings[last.id].table_id, bookings[last.id].booking_date,
                bookings[last.id].duration_minutes, last.id) # {}

\* C30: the by-date-range query returns exactly the stored bookings whose
\* start lies in [start_date, end_date], both ends included, of every status
\* and table, in ascending order of start, and changes nothing in the store.
C30_DateRangeQuery ==
    /\ [](Ready =>
          \A s \in Times, e \in Times :
              LET found == get_bookings_by_date_range(s, e) IN
              /\ get_bookings_by_date_range_res(s, e) = "ok"
              /\ {found[i] : i \in 1..Len(found)}
                   = {b \in DOMAIN bookings :
                         s <= bookings[b].booking_date
                         /\ bookings[b].booking_date <= e}
              /\ Len(found) = Cardinality({found[i] : i \in 1..Len(found)})
              /\ \A i \in 1..Len(found), j \in 1..Len(found) :
                    i < j => bookings[found[i]].booking_date
                               <= bookings[found[j]].booking_date)
    /\ [][last'.op = "get_bookings_by_date_range"
          => /\ last'.res = "ok"
             /\ bookings' = bookings
             /\ tables' = tables
             /\ users' = users]_vars

\* C31: cancelled stays terminal under interleaving.  When confirm_booking
\* and cancel_booking of the same pending booking run concurrently and the
\* cancel has stored cancelled, the write of the confirm_booking in flight
\* does not store confirmed over it.
C31_CancelledNotOverwritten ==
    [][\A p \in Procs, q \in Procs :
          (/\ inflight[p].pc = "read"
           /\ inflight[p].call = "confirm_booking"
           /\ inflight[p].was = "pending"
           /\ inflight'[p].pc = "done"
           /\ inflight[q].pc = "done"
           /\ inflight[q].call = "cancel_booking"
           /\ inflight[q].id = inflight[p].id
           /\ inflight[q].was = "pending"
           /\ inflight[q].res = "ok"
           /\ StoredStatus(inflight[p].id) = "cancelled")
          => bookings'[inflight[p].id].status # "confirmed"]_vars

\* C32: the availability check of update_booking covers what is stored.
\* After a successful update_booking with check_availability = True, for
\* every field list, the stored row, if active, overlaps no other active
\* booking on its stored table.
C32_UpdateCheckCoversStored ==
    [][(/\ last'.op = "update_booking"
        /\ last'.res = "ok"
        /\ bookings'[last'.id].status \in ActiveStatus)
       => \A c \in DOMAIN bookings' \ {last'.id} :
             (/\ bookings'[c].table_id = bookings'[last'.id].table_id
              /\ bookings'[c].status \in ActiveStatus)
             => ~Overlaps(bookings'[c].booking_date, EndOf(bookings'[c]),
                          bookings'[last'.id].booking_date,
                          EndOf(bookings'[last'.id]))]_vars

\* C33: confirm_booking and cancel_booking of a stored booking change the
\* status and updated_at of that booking and nothing else: its table, start,
\* duration and created_at keep their stored values, and every other
\* booking, every table and every user is unchanged.
C33_StatusCallFrame ==
    [][(/\ last'.op \in {"confirm_booking", "cancel_booking"}
        /\ last'.res = "ok")
       => /\ last'.id \in DOMAIN bookings
          /\ bookings' = [bookings EXCEPT ![last'.id].status = last'.status]
          /\ stamps' = [stamps EXCEPT ![last'.id].updated_at = now]
          /\ tables' = tables
          /\ users' = users]_vars

\* confirm_booking has gone through on a pending booking made at an earlier
\* time, with a second booking stored
C33_Witness ==
    /\ last.op = "confirm_booking"
    /\ last.res = "ok"
    /\ last.was = "pending"
    /\ bookings[last.id].status = "confirmed"
    /\ stamps[last.id].created_at < now
    /\ stamps[last.id].updated_at = now
    /\ DOMAIN bookings = {1, 2}

\* C34: check_table_availability and the queries are read-only: the stored
\* users, tables and bookings are the same after the call as before it,
\* whatever it answers.
C34_QueriesReadOnly ==
    [][last'.op \in QueryOps
       => /\ users' = users
          /\ tables' = tables
          /\ bookings' = bookings
          /\ stamps' = stamps]_vars

\* a query has answered, here by raising, over a store that holds a user, a
\* table that is switched off and a booking
C34_Witness ==
    /\ last.op = "get_bookings_by_date_range"
    /\ last.res = "AttributeError"
    /\ DOMAIN users # {}
    /\ \E t \in DOMAIN tables : ~tables[t].is_available
    /\ DOMAIN bookings # {}

\* C35: switching a table's availability flag off through update_table
\* leaves the bookings as they are, and while the flag of a stored table is
\* off every create_booking with check_availability = True on that table is
\* refused, and so is every update_booking with check_availability = True
\* whose record is on that table and differs from the stored row in start,
\* duration or table.
C35_FlagOffBlocksBooking ==
    /\ [](Ready =>
          \A t \in DOMAIN tables :
              ~tables[t].is_available
              => /\ \A s \in Times, d \in Durations :
                       create_booking_res(t, s, d, TRUE) = "ValueError"
                 /\ \A b \in DOMAIN bookings, r \in Booking :
                       (/\ r.table_id = t
                        /\ \/ r.booking_date # bookings[b].booking_date
                           \/ r.duration_minutes # bookings[b].duration_minutes
                           \/ r.table_id # bookings[b].table_id)
                       => update_booking_res(b, r, TRUE) = "ValueError")
    /\ [][last'.op = "update_table"
          => bookings' = bookings /\ stamps' = stamps]_vars

\* update_table has just gone through on the only table, whose flag is now
\* off and which holds an active booking
C35_Witness ==
    /\ last.op = "update_table"
    /\ last.res = "ok"
    /\ DOMAIN tables = {"t1"}
    /\ ~tables["t1"].is_available
    /\ \E b \in DOMAIN bookings : bookings[b].table_id = "t1" /\ Active(b)

\* C36: deletion releases the slot.  After delete_booking of booking B has
\* answered true, for every interval that no active booking other than B met
\* on B's table, the table being available, check_table_availability answers
\* available and create_booking with the check succeeds.
C36_DeleteReleasesSlot ==
    [][\A b \in DOMAIN bookings, t \in TableIds :
          (/\ last'.op = "delete_booking"
           /\ last'.res = "True"
           /\ last'.id = b
           /\ bookings[b].table_id = t)
          => /\ b \notin DOMAIN bookings'
             /\ \A s \in Times, d \in Durations :
                   (TableOpen(t) /\ OthersOn(t, s, d, b) = {})
                   => /\ check_table_availability(t, s, d,
                                                  NoBooking).is_available'
                      /\ create_booking_res(t, s, d, TRUE)' = "ok"]_vars

\* the only active booking has been deleted, every table being stored and
\* available; a cancelled booking remains
C36_Witness ==
    /\ last.op = "delete_booking"
    /\ last.res = "True"
    /\ last.was \in ActiveStatus
    /\ \A t \in TableIds : TableOpen(t)
    /\ DOMAIN bookings # {}
    /\ \A c \in DOMAIN bookings : ~Active(c)

====
